---- MODULE Spec2Model ----
(***************************************************************************)
(* A model of the video downloader repository: the Flask web application   *)
(* (src/app.py), the desktop GUI window (src/presentation/main_window.py)  *)
(* and the pure helpers (format sorting, format selector) shared by the    *)
(* variants.  One process runs one variant, so the variable `variant`      *)
(* selects which program the behaviour belongs to.                         *)
(***************************************************************************)
EXTENDS Naturals, Integers, Sequences, FiniteSets, TLC

VARIABLES
    variant,          \* which program is running: "flask", "gui", "lib", "clean" or "container"
    download_status,  \* app.py: the global download_status dict
    req,              \* app.py: each POST /download request's position and response
    worker,           \* app.py: each request's download_thread
    latest,           \* app.py: the request whose reset of download_status was the last one
    owner,            \* app.py: per field of download_status, the request that wrote it last
    threads_started,  \* number of threading.Thread(...).start() calls made so far
    win,              \* main_window.py: the VideoDownloaderWindow's fields and widgets
    threads,          \* main_window.py: the worker threads the window has started
    after_queue,      \* main_window.py: callbacks handed to root.after(0, ...), not yet run
    cancelled,        \* main_window.py: the download threads that were in flight at a cancel
    call,             \* the last call of a helper function: its name, argument and result
    config_file,      \* config_repository_impl.py: the text of config.json, <<>> when there is no file
    heap,             \* di_container.py: the objects constructed so far, an object's reference is its index
    config_error,     \* config_repository_impl.py: the exception the last setter raised, or None
    container         \* di_container.py: the DIContainer's _instances, <<>> before it is constructed

flaskVars == <<download_status, req, worker, latest, owner>>
guiVars == <<win, threads, after_queue, cancelled>>
cleanVars == <<config_file, heap, config_error, container>>
vars == <<variant, download_status, req, worker, latest, owner, threads_started,
          win, threads, after_queue, cancelled, call, config_file, heap, config_error, container>>

(***************************************************************************)
(* Bounds                                                                  *)
(***************************************************************************)
MaxRequests == 2      \* POST /download requests sent to the Flask app
MaxGuiThreads == 3    \* worker threads the desktop window starts in one run
MaxFormats == 3       \* formats in the info dict the library returns
MaxIdLen == 4         \* characters of a format_id posted to /download
MaxMsgWords == 2      \* pieces of text in the message of an exception the library raises
MaxDuration == 3700   \* seconds of the longest video whose duration is formatted
MaxRepos == 2         \* JsonConfigurationRepository objects opened on config.json

Req == 1..MaxRequests

None == "None"        \* Python's None

\* No helper function has been called.
NoCall == [op |-> "none", arg |-> <<>>, result |-> <<>>]

(***************************************************************************)
(* src/app.py : the Flask application                                      *)
(***************************************************************************)

\* URLs a client can post, after .strip(), with urlparse's scheme and netloc.
FlaskUrls ==
    { [text |-> "",             scheme |-> "",      netloc |-> ""],
      [text |-> "ftp://h/v",    scheme |-> "ftp",   netloc |-> "h"],
      [text |-> "http:///v",    scheme |-> "http",  netloc |-> ""],
      [text |-> "https://h/v",  scheme |-> "https", netloc |-> "h"] }

\* VideoDownloader.is_valid_url
is_valid_url(url) ==
    /\ url.text # ""
    /\ url.scheme \in {"http", "https"}
    /\ url.netloc # ""

\* The module-level download_status dict.
InitialStatus ==
    [in_progress |-> FALSE, progress |-> 0, status |-> "", filename |-> "", error |-> None]

\* The dict the route assigns when it accepts a request.
ResetStatus ==
    [in_progress |-> TRUE, progress |-> 0, status |-> "Starting download...",
     filename |-> "", error |-> None]

\* Messages VideoDownloader.download_video returns with success == False.
FailureMessages ==
    { "This video is unavailable. It may have been removed or made private.",
      "Download failed: boom" }

\* Percentages a 'downloading' progress hook can report (total > 0).
Percentages == {50}

ErrNoUrl == "Please enter a URL"
ErrBadUrl == "Please enter a valid URL"
ErrBusy == "A download is already in progress"
MsgStarted == "Download started"

Rejections == {ErrNoUrl, ErrBadUrl, ErrBusy}

\* Requests are numbered in the order they arrive.
Arrives(r) == req[r].pc = "new" /\ \A q \in Req : q < r => req[q].pc # "new"

\* RouteChecks with the in_progress test moved in front of the URL tests.
RouteChecksBusyFirst(url) ==
    IF download_status.in_progress THEN ErrBusy
    ELSE IF url.text = "" THEN ErrNoUrl
    ELSE IF ~is_valid_url(url) THEN ErrBadUrl
    ELSE "pass"

\* The response a request gets from the checks of the route, or "pass".
RouteChecks(url) ==
    IF url.text = "" THEN ErrNoUrl
    ELSE IF ~is_valid_url(url) THEN ErrBadUrl
    ELSE IF download_status.in_progress THEN ErrBusy
    ELSE "pass"

\* POST /download, up to and including the test of download_status['in_progress'].
download_video_check(r, url) ==
    /\ variant = "flask"
    /\ Arrives(r)
    /\ LET c == RouteChecks(url) IN
         req' = [req EXCEPT ![r] = IF c = "pass"
                                   THEN [pc |-> "reset", url |-> <<url>>, resp |-> None]
                                   ELSE [pc |-> "done", url |-> <<url>>, resp |-> c]]
    /\ UNCHANGED <<variant, cleanVars, download_status, worker, latest, owner, threads_started, guiVars, call>>

\* POST /download: download_status = {...} (the reset).
download_video_reset(r) ==
    /\ variant = "flask"
    /\ req[r].pc = "reset"
    /\ download_status' = ResetStatus
    /\ latest' = r
    /\ owner' = [error |-> r, filename |-> r, progress |-> r]
    /\ req' = [req EXCEPT ![r].pc = "start"]
    /\ UNCHANGED <<variant, cleanVars, worker, threads_started, guiVars, call>>

\* POST /download: thread.start() and the success response.
download_video_start(r) ==
    /\ variant = "flask"
    /\ req[r].pc = "start"
    /\ worker' = [worker EXCEPT ![r] = [pc |-> "call", message |-> None]]
    /\ threads_started' = threads_started + 1
    /\ req' = [req EXCEPT ![r].pc = "done", ![r].resp = MsgStarted]
    /\ UNCHANGED <<variant, cleanVars, download_status, latest, owner, guiVars, call>>

\* VideoDownloader._progress_hook, d['status'] == 'downloading', total > 0.
progress_hook_downloading(r, pct) ==
    /\ variant = "flask"
    /\ worker[r].pc = "call"
    /\ download_status' = [download_status EXCEPT
                             !.progress = pct, !.status = "Downloading: 50.0% - 0.0 MB/s"]
    /\ owner' = [owner EXCEPT !.progress = r]
    /\ UNCHANGED <<variant, cleanVars, req, worker, latest, threads_started, guiVars, call>>

\* VideoDownloader._progress_hook, d['status'] == 'finished'.
progress_hook_finished(r) ==
    /\ variant = "flask"
    /\ worker[r].pc = "call"
    /\ download_status' = [download_status EXCEPT
                             !.progress = 100, !.status = "Download completed!",
                             !.filename = "video.mp4"]
    /\ owner' = [owner EXCEPT !.progress = r, !.filename = r]
    /\ UNCHANGED <<variant, cleanVars, req, worker, latest, threads_started, guiVars, call>>

\* VideoDownloader.download_video returns (True, ...): ydl.download came back.
library_returns_ok(r) ==
    /\ variant = "flask"
    /\ worker[r].pc = "call"
    /\ worker' = [worker EXCEPT ![r].pc = "l317"]
    /\ UNCHANGED <<variant, cleanVars, download_status, req, latest, owner, threads_started, guiVars, call>>

\* VideoDownloader.download_video returns (False, message): the library raised
\* and the except clause mapped the exception to a message.
library_raises(r, message) ==
    /\ variant = "flask"
    /\ worker[r].pc = "call"
    /\ worker' = [worker EXCEPT ![r] = [pc |-> "l320", message |-> message]]
    /\ UNCHANGED <<variant, cleanVars, download_status, req, latest, owner, threads_started, guiVars, call>>

\* download_thread, one assignment to download_status per step.
download_thread_step(r) ==
    /\ variant = "flask"
    /\ \/ /\ worker[r].pc = "l317"
          /\ download_status' = [download_status EXCEPT !.status = "Download completed!"]
          /\ worker' = [worker EXCEPT ![r].pc = "l318"]
          /\ UNCHANGED owner
       \/ /\ worker[r].pc = "l318"
          /\ download_status' = [download_status EXCEPT !.progress = 100]
          /\ worker' = [worker EXCEPT ![r].pc = "l322"]
          /\ owner' = [owner EXCEPT !.progress = r]
       \/ /\ worker[r].pc = "l320"
          /\ download_status' = [download_status EXCEPT !.error = worker[r].message]
          /\ worker' = [worker EXCEPT ![r].pc = "l321"]
          /\ owner' = [owner EXCEPT !.error = r]
       \/ /\ worker[r].pc = "l321"
          /\ download_status' = [download_status EXCEPT !.status = "Download failed"]
          /\ worker' = [worker EXCEPT ![r].pc = "l322"]
          /\ UNCHANGED owner
       \/ /\ worker[r].pc = "l322"
          /\ download_status' = [download_status EXCEPT !.in_progress = FALSE]
          /\ worker' = [worker EXCEPT ![r].pc = "done"]
          /\ UNCHANGED owner
    /\ UNCHANGED <<variant, cleanVars, req, latest, threads_started, guiVars, call>>

(***************************************************************************)
(* src/presentation/main_window.py : the desktop window                    *)
(***************************************************************************)

\* What the URL entry can hold when the user asks for the video's information.
GuiUrls == {"", "u1", "u2"}

\* GetAvailableFormatsUseCase.execute: the formats the library reports for a URL.
FormatsOf(url) ==
    IF url = "u1"
    THEN << [format_id |-> "137", height |-> 1080, has_audio |-> FALSE,
             is_auto |-> FALSE, is_compatible |-> FALSE],
            [format_id |-> "18", height |-> 360, has_audio |-> TRUE,
             is_auto |-> FALSE, is_compatible |-> FALSE] >>
    ELSE << [format_id |-> "22", height |-> 720, has_audio |-> TRUE,
             is_auto |-> FALSE, is_compatible |-> FALSE] >>

\* get_recommended_formats with the two synthetic options in the other order.
RecommendedCompatibleFirst(formats) ==
    << [format_id |-> "best[height<=720][ext=mp4]/best[height<=720]/best[ext=mp4]/best",
        height |-> 720, has_audio |-> TRUE, is_auto |-> FALSE, is_compatible |-> TRUE],
       [format_id |-> "bestvideo[ext=mp4]+bestaudio[ext=m4a]/best[ext=mp4]/best",
        height |-> 9999, has_audio |-> TRUE, is_auto |-> TRUE, is_compatible |-> FALSE] >>
    \o formats

\* FormatSelectionService.get_recommended_formats
get_recommended_formats(formats) ==
    << [format_id |-> "bestvideo[ext=mp4]+bestaudio[ext=m4a]/best[ext=mp4]/best",
        height |-> 9999, has_audio |-> TRUE, is_auto |-> TRUE, is_compatible |-> FALSE],
       [format_id |-> "best[height<=720][ext=mp4]/best[height<=720]/best[ext=mp4]/best",
        height |-> 720, has_audio |-> TRUE, is_auto |-> FALSE, is_compatible |-> TRUE] >>
    \o formats

\* VideoDownloaderWindow.__init__ and _create_widgets: the window as constructed.
\* An Optional[VideoFormat] is <<>> for None and <<f>> for the format f.
IdleWindow ==
    [ current_video_info |-> None,
      current_formats    |-> <<>>,
      is_downloading     |-> FALSE,
      fetch_button       |-> [state |-> "normal", text |-> "Get Video Info"],
      download_button    |-> "disabled",
      cancel_button      |-> "disabled",
      status_label       |-> "Ready",
      progress_status    |-> "Ready to download",
      frame_formats      |-> <<>>,
      selected_format    |-> <<>> ]

\* _show_error that reports the error and leaves the fetch button as it is.
ShowErrorKeepsButton(w) ==
    [w EXCEPT !.status_label = "Error"]

\* VideoDownloaderWindow._show_error
_show_error(w) ==
    [w EXCEPT !.fetch_button = [state |-> "normal", text |-> "Get Video Info"],
              !.status_label = "Error"]

\* VideoDownloaderWindow._update_video_info_ui, with FormatSelectionFrame.update_formats
_update_video_info_ui(w, video_info, formats) ==
    [w EXCEPT !.current_video_info = video_info,
              !.current_formats = formats,
              !.frame_formats = formats,
              !.download_button = "normal",
              !.fetch_button = [state |-> "normal", text |-> "Get Video Info"],
              !.status_label = "Found formats"]

\* VideoDownloaderWindow._download_completed
_download_completed(w) ==
    [w EXCEPT !.is_downloading = FALSE,
              !.download_button = "normal",
              !.cancel_button = "disabled",
              !.fetch_button.state = "normal",
              !.progress_status = "Download completed!",
              !.status_label = "Ready"]

\* One callback of root.after(0, ...), run on the main thread.
ApplyCallback(w, c) ==
    IF c.cb = "_show_error" THEN _show_error(w)
    ELSE IF c.cb = "_update_video_info_ui"
         THEN _update_video_info_ui(w, c.video_info, c.formats)
    ELSE _download_completed(w)

\* The callbacks of a queue, run in the order they were scheduled.
RECURSIVE RunPending(_, _)
RunPending(w, q) ==
    IF q = <<>> THEN w ELSE RunPending(ApplyCallback(w, Head(q)), Tail(q))

\* A thread whose callback has run is finished.
MarkRun(ths, q) ==
    [t \in DOMAIN ths |->
        IF \E i \in DOMAIN q : q[i].thread = t THEN [ths[t] EXCEPT !.pc = "done"] ELSE ths[t]]

\* The Tk main loop runs the oldest pending root.after callback.
mainloop_runs_callback ==
    /\ variant = "gui"
    /\ after_queue # <<>>
    /\ win' = ApplyCallback(win, Head(after_queue))
    /\ threads' = MarkRun(threads, <<Head(after_queue)>>)
    /\ after_queue' = Tail(after_queue)
    /\ UNCHANGED <<call, variant, cleanVars, flaskVars, threads_started, cancelled>>

NewThread(kind, url) == [kind |-> kind, pc |-> "started", url |-> url, cb |-> None]

\* _fetch_video_info without the test of the URL: a worker for an empty field too.
FetchWithoutUrlTest(url) ==
    /\ variant = "gui"
    /\ threads_started < MaxGuiThreads
    /\ win' = RunPending(
                [win EXCEPT !.fetch_button = [state |-> "disabled", text |-> "Loading..."],
                            !.status_label = "Fetching video information..."],
                after_queue)
    /\ after_queue' = <<>>
    /\ threads' = Append(MarkRun(threads, after_queue), NewThread("fetch", url))
    /\ threads_started' = threads_started + 1
    /\ UNCHANGED <<call, variant, cleanVars, flaskVars, cancelled>>

\* VideoDownloaderWindow._fetch_video_info; root.update() runs what is pending.
_fetch_video_info(url) ==
    /\ variant = "gui"
    /\ IF url = ""
       THEN UNCHANGED <<win, threads, after_queue, threads_started>>
       ELSE /\ threads_started < MaxGuiThreads
            /\ win' = RunPending(
                        [win EXCEPT !.fetch_button = [state |-> "disabled", text |-> "Loading..."],
                                    !.status_label = "Fetching video information..."],
                        after_queue)
            /\ after_queue' = <<>>
            /\ threads' = Append(MarkRun(threads, after_queue), NewThread("fetch", url))
            /\ threads_started' = threads_started + 1
    /\ UNCHANGED <<call, variant, cleanVars, flaskVars, cancelled>>

\* The user clicks the "Get Video Info" button: Tk runs the command of an enabled button.
click_fetch_button(url) ==
    /\ win.fetch_button.state = "normal"
    /\ _fetch_video_info(url)

\* The user presses Return in the URL entry: the <Return> binding.
press_return_in_url_entry(url) ==
    _fetch_video_info(url)

\* root.after(0, callback), the last thing a worker does; its arguments are
\* then held by the callback alone.
Post(t, c) ==
    /\ after_queue' = Append(after_queue, c @@ [thread |-> t])
    /\ threads' = [threads EXCEPT ![t] = [kind |-> threads[t].kind, pc |-> "posted",
                                          url |-> None, cb |-> c.cb]]

\* _fetch_video_info_thread: the validate_url use case.
fetch_thread_validates(t, valid) ==
    /\ variant = "gui"
    /\ t \in DOMAIN threads
    /\ threads[t].kind = "fetch" /\ threads[t].pc = "started"
    /\ IF valid
       THEN /\ threads' = [threads EXCEPT ![t].pc = "extract"]
            /\ UNCHANGED after_queue
       ELSE Post(t, [cb |-> "_show_error"])
    /\ UNCHANGED <<call, variant, cleanVars, flaskVars, threads_started, win, cancelled>>

\* _fetch_video_info_thread: get_video_info, get_formats, get_recommended_formats.
fetch_thread_extracts(t, ok) ==
    /\ variant = "gui"
    /\ t \in DOMAIN threads
    /\ threads[t].kind = "fetch" /\ threads[t].pc = "extract"
    /\ IF ok
       THEN Post(t, [cb |-> "_update_video_info_ui",
                     video_info |-> threads[t].url,
                     formats |-> get_recommended_formats(FormatsOf(threads[t].url))])
       ELSE Post(t, [cb |-> "_show_error"])
    /\ UNCHANGED <<call, variant, cleanVars, flaskVars, threads_started, win, cancelled>>

\* FormatSelectionFrame._on_format_select: the user picks a row of the listbox.
_on_format_select(index) ==
    /\ variant = "gui"
    /\ index \in 1..Len(win.frame_formats)
    /\ win' = [win EXCEPT !.selected_format = <<win.frame_formats[index]>>]
    /\ UNCHANGED <<call, variant, cleanVars, flaskVars, threads_started, threads, after_queue, cancelled>>

\* VideoDownloaderWindow._start_download
_start_download ==
    /\ variant = "gui"
    /\ IF win.current_video_info = None \/ win.current_formats = <<>>
          \/ win.selected_format = <<>>
       THEN UNCHANGED <<win, threads, threads_started>>
       ELSE /\ threads_started < MaxGuiThreads
            /\ win' = [win EXCEPT !.is_downloading = TRUE,
                                  !.download_button = "disabled",
                                  !.cancel_button = "normal",
                                  !.fetch_button.state = "disabled",
                                  !.progress_status = "Starting download...",
                                  !.status_label = "Downloading..."]
            /\ threads' = Append(threads, NewThread("download", win.current_video_info))
            /\ threads_started' = threads_started + 1
    /\ UNCHANGED <<call, variant, cleanVars, flaskVars, after_queue, cancelled>>

\* The user clicks "Download Video".
click_download_button ==
    /\ win.download_button = "normal"
    /\ _start_download

\* _download_thread: get_download_path and ensure_download_directory.
download_thread_prepares(t, ok) ==
    /\ variant = "gui"
    /\ t \in DOMAIN threads
    /\ threads[t].kind = "download" /\ threads[t].pc = "started"
    /\ IF ok
       THEN /\ threads' = [threads EXCEPT ![t].pc = "execute"]
            /\ UNCHANGED after_queue
       ELSE Post(t, [cb |-> "_show_error"])
    /\ UNCHANGED <<call, variant, cleanVars, flaskVars, threads_started, win, cancelled>>

\* _download_thread: the download_video use case returns a result or raises.
download_thread_executes(t, ok) ==
    /\ variant = "gui"
    /\ t \in DOMAIN threads
    /\ threads[t].kind = "download" /\ threads[t].pc = "execute"
    /\ IF ok
       THEN Post(t, [cb |-> "_download_completed"])
       ELSE Post(t, [cb |-> "_show_error"])
    /\ UNCHANGED <<call, variant, cleanVars, flaskVars, threads_started, win, cancelled>>

InFlightDownloads ==
    {t \in DOMAIN threads : threads[t].kind = "download" /\ threads[t].pc \in {"started", "execute"}}

\* _cancel_download that also ends the workers in flight, their callbacks never run.
CancelStopsWorkers ==
    /\ variant = "gui"
    /\ win' = [win EXCEPT !.is_downloading = FALSE,
                          !.download_button = "normal",
                          !.cancel_button = "disabled",
                          !.fetch_button.state = "normal",
                          !.progress_status = "Download cancelled",
                          !.status_label = "Ready"]
    /\ cancelled' = cancelled \cup InFlightDownloads
    /\ threads' = [t \in DOMAIN threads |->
                     IF t \in InFlightDownloads THEN [threads[t] EXCEPT !.pc = "stopped"]
                     ELSE threads[t]]
    /\ UNCHANGED <<call, variant, cleanVars, flaskVars, threads_started, after_queue>>

\* VideoDownloaderWindow._cancel_download
_cancel_download ==
    /\ variant = "gui"
    /\ win' = [win EXCEPT !.is_downloading = FALSE,
                          !.download_button = "normal",
                          !.cancel_button = "disabled",
                          !.fetch_button.state = "normal",
                          !.progress_status = "Download cancelled",
                          !.status_label = "Ready"]
    /\ cancelled' = cancelled \cup InFlightDownloads
    /\ UNCHANGED <<call, variant, cleanVars, flaskVars, threads_started, threads, after_queue>>

\* The user clicks "Cancel".
click_cancel_button ==
    /\ win.cancel_button = "normal"
    /\ _cancel_download

InitGui ==
    /\ variant = "gui"
    /\ download_status = InitialStatus
    /\ req = [r \in Req |-> [pc |-> "new", url |-> <<>>, resp |-> None]]
    /\ worker = [r \in Req |-> [pc |-> "none", message |-> None]]
    /\ latest = 0
    /\ owner = [error |-> 0, filename |-> 0, progress |-> 0]
    /\ threads_started = 0
    /\ win = IdleWindow
    /\ threads = <<>>
    /\ after_queue = <<>>
    /\ cancelled = {}
    /\ call = NoCall
    /\ config_file = <<>>
    /\ heap = <<>>
    /\ config_error = None
    /\ container = <<>>

GuiThreadIds == 1..MaxGuiThreads

NextGui ==
    \/ \E url \in GuiUrls : click_fetch_button(url)
    \/ \E url \in GuiUrls : press_return_in_url_entry(url)
    \/ \E t \in GuiThreadIds, valid \in BOOLEAN : fetch_thread_validates(t, valid)
    \/ \E t \in GuiThreadIds, ok \in BOOLEAN : fetch_thread_extracts(t, ok)
    \/ mainloop_runs_callback
    \/ \E index \in 1..Len(win.frame_formats) : _on_format_select(index)
    \/ click_download_button
    \/ \E t \in GuiThreadIds, ok \in BOOLEAN : download_thread_prepares(t, ok)
    \/ \E t \in GuiThreadIds, ok \in BOOLEAN : download_thread_executes(t, ok)
    \/ click_cancel_button


(***************************************************************************)
(* Helper functions: sorting the formats, building the format selector     *)
(***************************************************************************)

\* Heights the library reports.
Heights == {480, 720}

\* One entry of info['formats'] as the library returns it; `dead` stands for
\* filesize == 0 with no url.
RawFormats ==
    [vcodec : {"none", "avc1"}, acodec : {"none", "mp4a"}, height : Heights, dead : BOOLEAN]

SeqsUpTo(S, n) == UNION {[1..k -> S] : k \in 0..n}

\* info['formats'], each entry with its format_id (its position in the list).
RawInfos ==
    { [i \in DOMAIN fs |-> fs[i] @@ [format_id |-> i]] : fs \in SeqsUpTo(RawFormats, MaxFormats) }

\* Python's bool as an int: False < True.
BoolKey(b) == IF b THEN 1 ELSE 0

\* Python's tuple comparison of two (int, bool) keys.
KeyLess(a, b) == a[1] < b[1] \/ (a[1] = b[1] /\ a[2] < b[2])

\* list.sort(key=..., reverse=True): a stable sort, descending by key.  Each
\* element, paired with its key, is placed before the first one whose key is
\* smaller, so elements of equal key keep their order.
RECURSIVE InsertDescending(_, _)
InsertDescending(sorted, x) ==
    IF sorted = <<>> THEN <<x>>
    ELSE IF KeyLess(Head(sorted).key, x.key) THEN <<x>> \o sorted
    ELSE <<Head(sorted)>> \o InsertDescending(Tail(sorted), x)

RECURSIVE SortKeyed(_)
SortKeyed(keyed) ==
    IF keyed = <<>> THEN <<>>
    ELSE InsertDescending(SortKeyed(SubSeq(keyed, 1, Len(keyed) - 1)), keyed[Len(keyed)])

\* The sorted list: the elements without their keys.
SortReverse(keyed) ==
    LET sorted == SortKeyed(keyed) IN [i \in DOMAIN sorted |-> sorted[i].item]

\* The format record each variant builds from a library entry.
ToFormat(fmt) ==
    [format_id |-> fmt.format_id, height |-> fmt.height, has_audio |-> fmt.acodec # "none"]

MapToFormat(fs) == [i \in DOMAIN fs |-> ToFormat(fs[i])]

\* The key with the audio flag negated.
SortKeyAudioNegated(x) == <<x.height, BoolKey(~x.has_audio)>>

\* app.py: the sort key of VideoDownloader._extract_formats.
FlaskSortKey(x) == <<x.height, BoolKey(x.has_audio)>>

\* app.py: formats[:15].
FlaskFormatLimit == 15

\* app.py: the filter of VideoDownloader._extract_formats.
FlaskKeeps(fmt) == fmt.vcodec # "none" /\ ~fmt.dead

\* app.py: VideoDownloader._extract_formats.
flask_extract_formats(info) ==
    LET formats == MapToFormat(SelectSeq(info, FlaskKeeps))
        keyed == [i \in DOMAIN formats |-> [key |-> FlaskSortKey(formats[i]), item |-> formats[i]]]
        sorted == SortReverse(keyed)
    IN SubSeq(sorted, 1, IF Len(sorted) < FlaskFormatLimit THEN Len(sorted) ELSE FlaskFormatLimit)

\* The sort key of YtDlpVideoRepository._extract_formats,
\* FormatSelectionService.sort_formats and VideoDownloader.get_available_formats.
CleanSortKey(x) == <<x.height, BoolKey(~x.has_audio)>>

\* Each format paired with its key.
CleanKeyed(formats) ==
    [i \in DOMAIN formats |-> [key |-> CleanSortKey(formats[i]), item |-> formats[i]]]

HasVideo(fmt) == fmt.vcodec # "none"

\* video_repository_impl.py: YtDlpVideoRepository._extract_formats.
repository_extract_formats(info) ==
    SortReverse(CleanKeyed(MapToFormat(SelectSeq(info, HasVideo))))

\* services.py: FormatSelectionService.sort_formats.
sort_formats(formats) == SortReverse(CleanKeyed(formats))

\* video_downloader.py: VideoDownloader.get_available_formats.
get_available_formats(info) ==
    SortReverse(CleanKeyed(MapToFormat(SelectSeq(info, HasVideo))))

\* Python strings are sequences of characters.
STR_BEST == <<"b", "e", "s", "t">>

STR_FALLBACKS ==
    <<"b", "e", "s", "t", "[", "h", "e", "i", "g", "h", "t", "<", "=", "1", "0", "8", "0", "]", "/",
      "b", "e", "s", "t", "[", "h", "e", "i", "g", "h", "t", "<", "=", "7", "2", "0", "]", "/",
      "b", "e", "s", "t", "[", "h", "e", "i", "g", "h", "t", "<", "=", "4", "8", "0", "]", "/",
      "b", "e", "s", "t">>

STR_WITH_AUDIO ==
    <<"+", "b", "e", "s", "t", "a", "u", "d", "i", "o", "/",
      "b", "e", "s", "t", "a", "u", "d", "i", "o", "/", "b", "e", "s", "t">>

\* The selector without its last alternative.
SelectorWithoutLastBest(format_id) ==
    IF format_id = STR_BEST THEN STR_FALLBACKS
    ELSE format_id \o SubSeq(STR_WITH_AUDIO, 1, Len(STR_WITH_AUDIO) - 5)

\* app.py: the format selector VideoDownloader.download_video hands to the library.
format_selector(format_id) ==
    IF format_id = STR_BEST THEN STR_FALLBACKS ELSE format_id \o STR_WITH_AUDIO

\* The characters a posted format_id is made of.
IdChars == {"b", "e", "s", "t", "/"}

FormatIds == SeqsUpTo(IdChars, MaxIdLen)

\* str.split(sep): the pieces between the separators.
RECURSIVE Split(_, _)
Split(s, sep) ==
    IF \E i \in DOMAIN s : s[i] = sep
    THEN LET i == CHOOSE j \in DOMAIN s : s[j] = sep /\ \A k \in 1..(j - 1) : s[k] # sep
         IN <<SubSeq(s, 1, i - 1)>> \o Split(SubSeq(s, i + 1, Len(s)), sep)
    ELSE <<s>>

\* A helper is called once, on the argument given, from a fresh process.
Returned(op, arg, result) == [op |-> op, arg |-> arg, result |-> result]

call_flask_extract_formats(info) ==
    /\ variant = "lib" /\ call = NoCall
    /\ call' = Returned("app._extract_formats", info, flask_extract_formats(info))
    /\ UNCHANGED <<variant, cleanVars, flaskVars, guiVars, threads_started>>

call_repository_extract_formats(info) ==
    /\ variant = "lib" /\ call = NoCall
    /\ call' = Returned("repository._extract_formats", info, repository_extract_formats(info))
    /\ UNCHANGED <<variant, cleanVars, flaskVars, guiVars, threads_started>>

call_sort_formats(formats) ==
    /\ variant = "lib" /\ call = NoCall
    /\ call' = Returned("sort_formats", formats, sort_formats(formats))
    /\ UNCHANGED <<variant, cleanVars, flaskVars, guiVars, threads_started>>

call_get_available_formats(info) ==
    /\ variant = "lib" /\ call = NoCall
    /\ call' = Returned("get_available_formats", info, get_available_formats(info))
    /\ UNCHANGED <<variant, cleanVars, flaskVars, guiVars, threads_started>>

call_format_selector(format_id) ==
    /\ variant = "lib" /\ call = NoCall
    /\ call' = Returned("format_selector", format_id, format_selector(format_id))
    /\ UNCHANGED <<variant, cleanVars, flaskVars, guiVars, threads_started>>

(***************************************************************************)
(* src/app.py : mapping the library's exceptions to messages               *)
(***************************************************************************)

\* The substrings the except clauses look for, in the order of the elif chain.
ErrorMarkers ==
    << "HTTP Error 403", "Video unavailable", "Requested format is not available",
       "Sign in to confirm your age", "No video formats found", "Unsupported URL" >>

\* str(e): a text made of pieces, each one of the substrings or other text.
MessageWords == {ErrorMarkers[k] : k \in DOMAIN ErrorMarkers} \cup {"boom"}

ErrorMessages == SeqsUpTo(MessageWords, MaxMsgWords)

\* `marker in error_msg`
Contains(text, marker) == \E i \in DOMAIN text : text[i] = marker

\* The pieces a URL is made of, and str.lower() of each.
UrlWords == {"movies4us", "MOVIES4US", "Streaming", "youtube"}

Lower(word) ==
    IF word = "MOVIES4US" THEN "movies4us"
    ELSE IF word = "Streaming" THEN "streaming"
    ELSE word

ErrorUrls == {<<w>> : w \in UrlWords}

\* url.lower()
LowerText(text) == [i \in DOMAIN text |-> Lower(text[i])]

\* "movies4us" in url.lower() or "streaming" in url.lower()
IsStreamingSite(url) ==
    Contains(LowerText(url), "movies4us") \/ Contains(LowerText(url), "streaming")

MsgStreamingSite ==
    "This appears to be a streaming site with strong anti-bot protection. These sites typically don't allow direct downloads. Try using a supported platform like YouTube, Vimeo, or other major video sites."
MsgNoFormats ==
    "No downloadable video formats found. This site may not be supported or may require special access."
MsgAgeCheck == "This video requires age verification. Please try a different video."
MsgUnsupportedUrl ==
    "This URL is not supported. Please try a video from YouTube, Vimeo, or other supported platforms."

\* The elif chain with 'Video unavailable' tested before 'HTTP Error 403'.
DownloadErrorUnavailableFirst(error_msg, url) ==
    IF Contains(error_msg, "Video unavailable")
    THEN <<"This video is unavailable. It may have been removed or made private.">>
    ELSE IF Contains(error_msg, "HTTP Error 403")
    THEN IF IsStreamingSite(url) THEN <<MsgStreamingSite>>
         ELSE <<"Access denied. This video may be private, region-restricted, or require authentication. Please try a different video.">>
    ELSE IF Contains(error_msg, "Requested format is not available")
    THEN <<"The requested video format is not available. Please try selecting a different quality option.">>
    ELSE IF Contains(error_msg, "Sign in to confirm your age") THEN <<MsgAgeCheck>>
    ELSE IF Contains(error_msg, "No video formats found") THEN <<MsgNoFormats>>
    ELSE IF Contains(error_msg, "Unsupported URL") THEN <<MsgUnsupportedUrl>>
    ELSE <<"Download failed: ">> \o error_msg

\* VideoDownloader.download_video, the except clause: the message returned with False.
download_error_message(error_msg, url) ==
    IF Contains(error_msg, "HTTP Error 403")
    THEN IF IsStreamingSite(url) THEN <<MsgStreamingSite>>
         ELSE <<"Access denied. This video may be private, region-restricted, or require authentication. Please try a different video.">>
    ELSE IF Contains(error_msg, "Video unavailable")
    THEN <<"This video is unavailable. It may have been removed or made private.">>
    ELSE IF Contains(error_msg, "Requested format is not available")
    THEN <<"The requested video format is not available. Please try selecting a different quality option.">>
    ELSE IF Contains(error_msg, "Sign in to confirm your age") THEN <<MsgAgeCheck>>
    ELSE IF Contains(error_msg, "No video formats found") THEN <<MsgNoFormats>>
    ELSE IF Contains(error_msg, "Unsupported URL") THEN <<MsgUnsupportedUrl>>
    ELSE <<"Download failed: ">> \o error_msg

\* VideoDownloader.get_video_info, the except clause: the message of the
\* exception it raises.
info_error_message(error_msg, url) ==
    IF Contains(error_msg, "HTTP Error 403")
    THEN IF IsStreamingSite(url) THEN <<MsgStreamingSite>>
         ELSE <<"Access denied. This video may be private, region-restricted, or require authentication. Please try a different video or check if the video is publicly available.">>
    ELSE IF Contains(error_msg, "Video unavailable")
    THEN <<"This video is unavailable. It may have been removed, made private, or is not accessible.">>
    ELSE IF Contains(error_msg, "Requested format is not available")
    THEN <<"The requested video format is not available. Please try a different video or check the video URL.">>
    ELSE IF Contains(error_msg, "Sign in to confirm your age") THEN <<MsgAgeCheck>>
    ELSE IF Contains(error_msg, "No video formats found") THEN <<MsgNoFormats>>
    ELSE IF Contains(error_msg, "Unsupported URL") THEN <<MsgUnsupportedUrl>>
    ELSE <<"Error extracting video info: ">> \o error_msg

\* VideoDownloader.download_video when the library raises: (False, message).
call_download_video_raises(error_msg, url) ==
    /\ variant = "lib" /\ call = NoCall
    /\ call' = Returned("download_video", <<error_msg, url>>,
                        [returned |-> TRUE, success |-> FALSE,
                         message |-> download_error_message(error_msg, url)])
    /\ UNCHANGED <<variant, cleanVars, flaskVars, guiVars, threads_started>>

\* VideoDownloader.download_video when ydl.download comes back: (True, message).
call_download_video_ok(url) ==
    /\ variant = "lib" /\ call = NoCall
    /\ call' = Returned("download_video", <<<<>>, url>>,
                        [returned |-> TRUE, success |-> TRUE,
                         message |-> <<"Download completed successfully!">>])
    /\ UNCHANGED <<variant, cleanVars, flaskVars, guiVars, threads_started>>

\* VideoDownloader.get_video_info when the library raises: it raises Exception(message).
call_get_video_info_raises(error_msg, url) ==
    /\ variant = "lib" /\ call = NoCall
    /\ call' = Returned("get_video_info", <<error_msg, url>>,
                        [returned |-> FALSE, success |-> FALSE,
                         message |-> info_error_message(error_msg, url)])
    /\ UNCHANGED <<variant, cleanVars, flaskVars, guiVars, threads_started>>

(***************************************************************************)
(* src/domain/entities.py : VideoInfo and VideoFormat                      *)
(***************************************************************************)

\* VideoInfo.duration: None (<<>>) or a number of seconds (<<d>>); a few long
\* videos besides every duration up to the bound.
Durations ==
    {<<>>} \cup {<<d>> : d \in (0..MaxDuration) \cup {7200, 86399, 360000, 362439}}

DigitChars == <<"0", "1", "2", "3", "4", "5", "6", "7", "8", "9">>

\* str(n) of a natural number.
RECURSIVE Decimal(_)
Decimal(n) ==
    IF n < 10 THEN <<DigitChars[n + 1]>>
    ELSE Decimal(n \div 10) \o <<DigitChars[(n % 10) + 1]>>

\* f"{n:02d}" of a natural number: at least two digits, padded with zeros.
Format02d(n) == IF n < 10 THEN <<"0">> \o Decimal(n) ELSE Decimal(n)

STR_UNKNOWN == <<"U", "n", "k", "n", "o", "w", "n">>

\* duration_formatted with the minutes taken from the whole duration.
DurationFormattedTotalMinutes(duration) ==
    IF duration = <<>> \/ duration = <<0>> THEN STR_UNKNOWN
    ELSE LET hours == duration[1] \div 3600
             minutes == duration[1] \div 60
             seconds == duration[1] % 60
         IN IF hours > 0
            THEN Format02d(hours) \o <<":">> \o Format02d(minutes) \o <<":">> \o Format02d(seconds)
            ELSE Format02d(minutes) \o <<":">> \o Format02d(seconds)

\* VideoInfo.duration_formatted
duration_formatted(duration) ==
    IF duration = <<>> \/ duration = <<0>> THEN STR_UNKNOWN
    ELSE LET hours == duration[1] \div 3600
             minutes == (duration[1] % 3600) \div 60
             seconds == duration[1] % 60
         IN IF hours > 0
            THEN Format02d(hours) \o <<":">> \o Format02d(minutes) \o <<":">> \o Format02d(seconds)
            ELSE Format02d(minutes) \o <<":">> \o Format02d(seconds)

call_duration_formatted(duration) ==
    /\ variant = "lib" /\ call = NoCall
    /\ call' = Returned("duration_formatted", duration, duration_formatted(duration))
    /\ UNCHANGED <<variant, cleanVars, flaskVars, guiVars, threads_started>>

(***************************************************************************)
(* src/application/services.py : PathService                               *)
(***************************************************************************)

STR_EXT_SUFFIX == <<".", "%", "(", "e", "x", "t", ")", "s">>

STR_TITLE_TEMPLATE == <<"%", "(", "t", "i", "t", "l", "e", ")", "s">> \o STR_EXT_SUFFIX

\* The characters sanitize_filename replaces.
InvalidChars == {"<", ">", ":", "\"", "/", "\\", "|", "?", "*"}

\* len(filename) > 200
FilenameLimit == 200

\* PathService.sanitize_filename, for a name with an extension of no characters
\* when it is cut.
sanitize_filename(filename) ==
    LET replaced == [i \in DOMAIN filename |->
                        IF filename[i] \in InvalidChars THEN "_" ELSE filename[i]]
    IN IF Len(replaced) > FilenameLimit THEN SubSeq(replaced, 1, FilenameLimit) ELSE replaced

\* What the user can type into the filename entry, after .strip().
FilenameTexts ==
    { <<>>, <<"f">>, <<"/", "f">>, <<"a", ":", "b">>,
      <<"f">> \o STR_EXT_SUFFIX, <<"f">> \o STR_EXT_SUFFIX \o STR_EXT_SUFFIX,
      <<"%", "(", "e", "x", "t", ")", "s">> }

\* request.custom_filename as _start_download builds it: None is <<>>.
Filenames == {<<>>} \cup {<<sanitize_filename(t)>> : t \in FilenameTexts}

\* custom_path: None (<<>>) or any text.
CustomPaths ==
    {<<>>} \cup {<<p>> : p \in { <<>>, <<"c">>, <<"/", "c">>, <<"c", "/", "e">>,
                                 <<"t", ".", "m", "p", "4">>, <<".", ".", "/", "c">> }}

\* The configured download paths.
BasePaths == { <<"d">>, <<"d", "/">>, <<"/", "d">>, <<"d", "/", "v">> }

\* os.path.isabs
isabs(p) == p # <<>> /\ p[1] = "/"

\* os.path.join(a, b)
join(a, b) ==
    IF isabs(b) THEN b
    ELSE IF a = <<>> \/ a[Len(a)] = "/" THEN a \o b
    ELSE a \o <<"/">> \o b

\* str.endswith
endswith(s, suffix) ==
    Len(s) >= Len(suffix) /\ SubSeq(s, Len(s) - Len(suffix) + 1, Len(s)) = suffix

\* get_download_path that appends '.%(ext)s' to every filename.
PathAlwaysAppendsSuffix(base_path, custom_path, filename) ==
    IF custom_path # <<>> /\ custom_path[1] # <<>>
    THEN IF isabs(custom_path[1]) THEN custom_path[1] ELSE join(base_path, custom_path[1])
    ELSE IF filename # <<>> /\ filename[1] # <<>>
    THEN join(base_path, filename[1] \o STR_EXT_SUFFIX)
    ELSE join(base_path, STR_TITLE_TEMPLATE)

\* PathService.get_download_path; base_path is what the configuration
\* repository returns.
path_get_download_path(base_path, custom_path, filename) ==
    IF custom_path # <<>> /\ custom_path[1] # <<>>
    THEN IF isabs(custom_path[1]) THEN custom_path[1] ELSE join(base_path, custom_path[1])
    ELSE IF filename # <<>> /\ filename[1] # <<>>
    THEN join(base_path, IF endswith(filename[1], STR_EXT_SUFFIX) THEN filename[1]
                         ELSE filename[1] \o STR_EXT_SUFFIX)
    ELSE join(base_path, STR_TITLE_TEMPLATE)

call_get_download_path(base_path, custom_path, filename) ==
    /\ variant = "lib" /\ call = NoCall
    /\ call' = Returned("PathService.get_download_path", <<base_path, custom_path, filename>>,
                        path_get_download_path(base_path, custom_path, filename))
    /\ UNCHANGED <<variant, cleanVars, flaskVars, guiVars, threads_started>>

\* VideoFormat objects whose names are computed; a text is made of pieces.
DisplayFormats ==
    [resolution : {"720p", "N/A"}, height : {0, 720}, extension : {"mp4", "N/A"},
     file_size : {None, "", "10.5 MB"}, has_audio : BOOLEAN,
     is_auto : BOOLEAN, is_compatible : BOOLEAN]

\* str.upper()
Upper(s) == IF s = "mp4" THEN "MP4" ELSE s

\* VideoFormat.audio_info; the labels are written without their leading emoji.
audio_info(fmt) == IF fmt.has_audio THEN "With Audio" ELSE "No Audio"

\* display_name with is_compatible tested before is_auto.
DisplayNameCompatibleFirst(fmt) ==
    IF fmt.is_compatible THEN <<"Best Compatible Format (Works everywhere)">>
    ELSE IF fmt.is_auto THEN <<"Best Quality with Audio (Recommended)">>
    ELSE <<fmt.resolution, " (">> \o Decimal(fmt.height) \o
         <<"p) - ", Upper(fmt.extension), " - ",
           IF fmt.file_size \in {None, ""} THEN "Unknown" ELSE fmt.file_size,
           " - ", audio_info(fmt)>>

\* VideoFormat.display_name
display_name(fmt) ==
    IF fmt.is_auto THEN <<"Best Quality with Audio (Recommended)">>
    ELSE IF fmt.is_compatible THEN <<"Best Compatible Format (Works everywhere)">>
    ELSE <<fmt.resolution, " (">> \o Decimal(fmt.height) \o
         <<"p) - ", Upper(fmt.extension), " - ",
           IF fmt.file_size \in {None, ""} THEN "Unknown" ELSE fmt.file_size,
           " - ", audio_info(fmt)>>

call_display_name(fmt) ==
    /\ variant = "lib" /\ call = NoCall
    /\ call' = Returned("display_name", <<fmt>>, display_name(fmt))
    /\ UNCHANGED <<variant, cleanVars, flaskVars, guiVars, threads_started>>

call_audio_info(fmt) ==
    /\ variant = "lib" /\ call = NoCall
    /\ call' = Returned("audio_info", <<fmt>>, <<audio_info(fmt)>>)
    /\ UNCHANGED <<variant, cleanVars, flaskVars, guiVars, threads_started>>

\* Lists of formats handed to get_recommended_formats and to the terminal
\* variant's get_user_selection.
FormatLists ==
    SeqsUpTo({FormatsOf("u1")[1], FormatsOf("u1")[2], FormatsOf("u2")[1]}, MaxFormats)

\* video_downloader.py: VideoDownloader.get_user_selection for the number the
\* user typed; <<>> when the number is refused and the user is asked again.
get_user_selection(formats, choice_num) ==
    IF choice_num = 0
    THEN << [format_id |-> "bestvideo[ext=mp4]+bestaudio[ext=m4a]/best[ext=mp4]/best",
             height |-> 9999, has_audio |-> TRUE, is_auto |-> TRUE, is_compatible |-> FALSE] >>
    ELSE IF choice_num = 1
    THEN << [format_id |-> "best[height<=720][ext=mp4]/best[height<=720]/best[ext=mp4]/best",
             height |-> 720, has_audio |-> TRUE, is_auto |-> FALSE, is_compatible |-> TRUE] >>
    ELSE IF 2 <= choice_num /\ choice_num <= Len(formats) + 1
    THEN <<formats[choice_num - 1]>>
    ELSE <<>>

\* get_recommended_formats is called; the caller's list is read again afterwards.
call_get_recommended_formats(formats) ==
    /\ variant = "lib" /\ call = NoCall
    /\ call' = Returned("get_recommended_formats", formats,
                        [recommended |-> get_recommended_formats(formats), formats |-> formats])
    /\ UNCHANGED <<variant, cleanVars, flaskVars, guiVars, threads_started>>

call_get_user_selection(formats, choice_num) ==
    /\ variant = "lib" /\ call = NoCall
    /\ call' = Returned("get_user_selection", <<formats, choice_num>>,
                        get_user_selection(formats, choice_num))
    /\ UNCHANGED <<variant, cleanVars, flaskVars, guiVars, threads_started>>

InitLib ==
    /\ variant = "lib"
    /\ download_status = InitialStatus
    /\ req = [r \in Req |-> [pc |-> "new", url |-> <<>>, resp |-> None]]
    /\ worker = [r \in Req |-> [pc |-> "none", message |-> None]]
    /\ latest = 0
    /\ owner = [error |-> 0, filename |-> 0, progress |-> 0]
    /\ threads_started = 0
    /\ win = IdleWindow
    /\ threads = <<>>
    /\ after_queue = <<>>
    /\ cancelled = {}
    /\ call = NoCall
    /\ config_file = <<>>
    /\ heap = <<>>
    /\ config_error = None
    /\ container = <<>>

\* The inputs are enumerated only in the process that calls a helper.
LibReady == variant = "lib" /\ call = NoCall

NextLib ==
    \/ LibReady /\ \E info \in RawInfos : call_flask_extract_formats(info)
    \/ LibReady /\ \E info \in RawInfos : call_repository_extract_formats(info)
    \/ LibReady /\ \E info \in RawInfos : call_sort_formats(MapToFormat(info))
    \/ LibReady /\ \E info \in RawInfos : call_get_available_formats(info)
    \/ LibReady /\ \E format_id \in FormatIds : call_format_selector(format_id)
    \/ LibReady /\ \E error_msg \in ErrorMessages, url \in ErrorUrls :
                      call_download_video_raises(error_msg, url)
    \/ LibReady /\ \E url \in ErrorUrls : call_download_video_ok(url)
    \/ LibReady /\ \E error_msg \in ErrorMessages, url \in ErrorUrls :
                      call_get_video_info_raises(error_msg, url)
    \/ LibReady /\ \E duration \in Durations : call_duration_formatted(duration)
    \/ LibReady /\ \E base_path \in BasePaths, custom_path \in CustomPaths, filename \in Filenames :
                      call_get_download_path(base_path, custom_path, filename)
    \/ LibReady /\ \E fmt \in DisplayFormats : call_display_name(fmt)
    \/ LibReady /\ \E fmt \in DisplayFormats : call_audio_info(fmt)
    \/ LibReady /\ \E formats \in FormatLists : call_get_recommended_formats(formats)
    \/ LibReady /\ \E formats \in FormatLists, choice_num \in 0..(MaxFormats + 2) :
                      call_get_user_selection(formats, choice_num)

(***************************************************************************)
(* src/infrastructure/config_repository_impl.py : the settings in          *)
(* config.json                                                             *)
(***************************************************************************)

\* Paths and format ids a caller hands to the setters; "" and " " are blank.
ConfigPaths == {"", " ", "videos"}
ConfigFormats == {"", "best", "null"}

\* not s or not s.strip()
IsBlank(s) == s \in {"", " "}

\* The dict _load_config returns when there is no file (the two settings of it).
DefaultConfig == [download_path |-> "downloads", preferred_format |-> None]

\* json.dump of one value: None is null, a string is written in quotes.
JsonEncode(v) == IF v = None THEN <<"null">> ELSE <<"\"", v, "\"">>

\* json.load of one value.
JsonDecode(j) == IF j = <<"null">> THEN None ELSE j[2]

\* json.dump(self.config, f): the text of the file.
JsonDump(config) == [k \in DOMAIN config |-> JsonEncode(config[k])]

\* json.load(f)
JsonLoad(text) == [k \in DOMAIN text |-> JsonDecode(text[k])]

\* JsonConfigurationRepository._load_config
_load_config(file) == IF file = <<>> THEN DefaultConfig ELSE JsonLoad(file[1])

\* JsonConfigurationRepository.get_download_path
config_get_download_path(config) ==
    IF "download_path" \in DOMAIN config THEN config.download_path ELSE "downloads"

\* JsonConfigurationRepository.get_preferred_format
get_preferred_format(config) ==
    IF "preferred_format" \in DOMAIN config THEN config.preferred_format ELSE None

\* An object of the clean-architecture variant; the fields a class does not
\* have are <<>>.
Object(cls, config, config_repository, video_repository) ==
    [cls |-> cls, config |-> config, config_repository |-> config_repository,
     video_repository |-> video_repository]

Repos == {o \in DOMAIN heap : heap[o].cls = "JsonConfigurationRepository"}

\* JsonConfigurationRepository(): a repository is opened on config.json.
open_repository ==
    /\ variant = "clean"
    /\ Cardinality(Repos) < MaxRepos
    /\ heap' = Append(heap, Object("JsonConfigurationRepository",
                                   <<_load_config(config_file)>>, <<>>, <<>>))
    /\ config_error' = None
    /\ UNCHANGED <<variant, flaskVars, guiVars, threads_started, call, config_file, container>>

\* SetAndSave with the file written before the assignment to self.config.
SaveBeforeSet(o, key, value, disk_ok) ==
    LET config == [heap[o].config[1] EXCEPT ![key] = value] IN
    /\ heap' = [heap EXCEPT ![o].config = <<config>>]
    /\ IF disk_ok
       THEN config_file' = <<JsonDump(heap[o].config[1])>> /\ config_error' = None
       ELSE config_file' = config_file /\ config_error' = "Error saving configuration"

\* self.config[key] = value, then _save_config; the disk may refuse the write.
SetAndSave(o, key, value, disk_ok) ==
    LET config == [heap[o].config[1] EXCEPT ![key] = value] IN
    /\ heap' = [heap EXCEPT ![o].config = <<config>>]
    /\ IF disk_ok
       THEN config_file' = <<JsonDump(config)>> /\ config_error' = None
       ELSE config_file' = config_file /\ config_error' = "Error saving configuration"

\* JsonConfigurationRepository.set_download_path
set_download_path(o, path, disk_ok) ==
    /\ variant = "clean"
    /\ o \in Repos
    /\ IF IsBlank(path)
       THEN /\ config_error' = "Download path cannot be empty"
            /\ UNCHANGED <<heap, config_file>>
       ELSE SetAndSave(o, "download_path", path, disk_ok)
    /\ UNCHANGED <<variant, flaskVars, guiVars, threads_started, call, container>>

\* JsonConfigurationRepository.set_preferred_format
set_preferred_format(o, format_id, disk_ok) ==
    /\ variant = "clean"
    /\ o \in Repos
    /\ IF IsBlank(format_id)
       THEN /\ config_error' = "Format ID cannot be empty"
            /\ UNCHANGED <<heap, config_file>>
       ELSE SetAndSave(o, "preferred_format", format_id, disk_ok)
    /\ UNCHANGED <<variant, flaskVars, guiVars, threads_started, call, container>>

(***************************************************************************)
(* src/di_container.py : the dependency injection container                *)
(***************************************************************************)

\* The names _setup_dependencies registers, in the order it constructs them.
RegisteredNames ==
    << "video_repository", "config_repository", "format_selection_service", "path_service",
       "get_video_info_use_case", "get_formats_use_case", "download_video_use_case",
       "validate_url_use_case" >>

\* Names a caller asks the container for.
RequestedNames ==
    {RegisteredNames[i] : i \in DOMAIN RegisteredNames}
        \cup {"get_video_info", "path", "main_window", ""}

\* DIContainer(): _setup_dependencies constructs the eight objects, each
\* service and use case given the repositories constructed before it.
new_container ==
    /\ variant = "container"
    /\ container = <<>>
    /\ LET video == Len(heap) + 1
           config == Len(heap) + 2
       IN /\ heap' = heap \o
                << Object("YtDlpVideoRepository", <<>>, <<>>, <<>>),
                   Object("JsonConfigurationRepository", <<_load_config(config_file)>>, <<>>, <<>>),
                   Object("FormatSelectionService", <<>>, <<config>>, <<>>),
                   Object("PathService", <<>>, <<config>>, <<>>),
                   Object("GetVideoInfoUseCase", <<>>, <<>>, <<video>>),
                   Object("GetAvailableFormatsUseCase", <<>>, <<>>, <<video>>),
                   Object("DownloadVideoUseCase", <<>>, <<config>>, <<video>>),
                   Object("ValidateUrlUseCase", <<>>, <<>>, <<video>>) >>
          /\ container' = << [i \in DOMAIN RegisteredNames |-> Len(heap) + i] >>
    /\ config_error' = None
    /\ UNCHANGED <<variant, flaskVars, guiVars, threads_started, call, config_file>>

\* self._instances[name], for a registered name.
Instance(name) ==
    container[1][CHOOSE i \in DOMAIN RegisteredNames : RegisteredNames[i] = name]

IsRegistered(name) == \E i \in DOMAIN RegisteredNames : RegisteredNames[i] = name

\* DIContainer.get that returns None for a name it does not know.
GetReturnsNone(name) ==
    /\ variant = "container"
    /\ container # <<>>
    /\ call' = Returned("DIContainer.get", <<name>>,
                        [raised |-> None,
                         value |-> IF IsRegistered(name) THEN <<Instance(name)>> ELSE <<>>])
    /\ UNCHANGED <<variant, cleanVars, flaskVars, guiVars, threads_started>>

\* DIContainer.get
container_get(name) ==
    /\ variant = "container"
    /\ container # <<>>
    /\ call' = Returned("DIContainer.get", <<name>>,
                        IF IsRegistered(name)
                        THEN [raised |-> None, value |-> <<Instance(name)>>]
                        ELSE [raised |-> "ValueError", value |-> <<>>])
    /\ UNCHANGED <<variant, cleanVars, flaskVars, guiVars, threads_started>>

\* DIContainer.get_use_cases
get_use_cases ==
    /\ variant = "container"
    /\ container # <<>>
    /\ call' = Returned("DIContainer.get_use_cases", <<>>,
                        [get_video_info |-> Instance("get_video_info_use_case"),
                         get_formats |-> Instance("get_formats_use_case"),
                         download_video |-> Instance("download_video_use_case"),
                         validate_url |-> Instance("validate_url_use_case")])
    /\ UNCHANGED <<variant, cleanVars, flaskVars, guiVars, threads_started>>

\* DIContainer.get_services
get_services ==
    /\ variant = "container"
    /\ container # <<>>
    /\ call' = Returned("DIContainer.get_services", <<>>,
                        [format_selection |-> Instance("format_selection_service"),
                         path |-> Instance("path_service")])
    /\ UNCHANGED <<variant, cleanVars, flaskVars, guiVars, threads_started>>

InitClean ==
    /\ variant = "clean"
    /\ download_status = InitialStatus
    /\ req = [r \in Req |-> [pc |-> "new", url |-> <<>>, resp |-> None]]
    /\ worker = [r \in Req |-> [pc |-> "none", message |-> None]]
    /\ latest = 0
    /\ owner = [error |-> 0, filename |-> 0, progress |-> 0]
    /\ threads_started = 0
    /\ win = IdleWindow
    /\ threads = <<>>
    /\ after_queue = <<>>
    /\ cancelled = {}
    /\ call = NoCall
    /\ config_file = <<>>
    /\ heap = <<>>
    /\ config_error = None
    /\ container = <<>>

\* References a repository can have.
RepoIds == 1..MaxRepos

NextClean ==
    \/ open_repository
    \/ \E o \in RepoIds, path \in ConfigPaths, disk_ok \in BOOLEAN :
          set_download_path(o, path, disk_ok)
    \/ \E o \in RepoIds, format_id \in ConfigFormats, disk_ok \in BOOLEAN :
          set_preferred_format(o, format_id, disk_ok)

\* A process that constructs the container, as main.py does.
InitContainer ==
    /\ variant = "container"
    /\ download_status = InitialStatus
    /\ req = [r \in Req |-> [pc |-> "new", url |-> <<>>, resp |-> None]]
    /\ worker = [r \in Req |-> [pc |-> "none", message |-> None]]
    /\ latest = 0
    /\ owner = [error |-> 0, filename |-> 0, progress |-> 0]
    /\ threads_started = 0
    /\ win = IdleWindow
    /\ threads = <<>>
    /\ after_queue = <<>>
    /\ cancelled = {}
    /\ call = NoCall
    /\ config_file = <<>>
    /\ heap = <<>>
    /\ config_error = None
    /\ container = <<>>

NextContainer ==
    \/ new_container
    \/ \E name \in RequestedNames : container_get(name)
    \/ get_use_cases
    \/ get_services

\* GET /status: the JSON body is the dict as it is.
get_download_status == download_status

InitFlask ==
    /\ variant = "flask"
    /\ download_status = InitialStatus
    /\ req = [r \in Req |-> [pc |-> "new", url |-> <<>>, resp |-> None]]
    /\ worker = [r \in Req |-> [pc |-> "none", message |-> None]]
    /\ latest = 0
    /\ owner = [error |-> 0, filename |-> 0, progress |-> 0]
    /\ threads_started = 0
    /\ win = IdleWindow
    /\ threads = <<>>
    /\ after_queue = <<>>
    /\ cancelled = {}
    /\ call = NoCall
    /\ config_file = <<>>
    /\ heap = <<>>
    /\ config_error = None
    /\ container = <<>>

NextFlask ==
    \/ \E r \in Req, url \in FlaskUrls : download_video_check(r, url)
    \/ \E r \in Req : download_video_reset(r)
    \/ \E r \in Req : download_video_start(r)
    \/ \E r \in Req, pct \in Percentages : progress_hook_downloading(r, pct)
    \/ \E r \in Req : progress_hook_finished(r)
    \/ \E r \in Req : library_returns_ok(r)
    \/ \E r \in Req, m \in FailureMessages : library_raises(r, m)
    \/ \E r \in Req : download_thread_step(r)

(***************************************************************************)
(* Claims about the Flask application                                      *)
(***************************************************************************)

Accepted(r) == req[r].pc = "start" \/ req[r].resp = MsgStarted

ActiveWorkers == {r \in Req : worker[r].pc \notin {"none", "done"}}

\* C1: a POST /download that is rejected (empty URL, URL failing is_valid_url,
\* or in_progress already True) answers with the matching error, starts no
\* worker thread and leaves every field of download_status unchanged; a request
\* that passes has a valid URL and saw in_progress False.
C1_RejectedRequestChangesNothing ==
    /\ [](\A r \in Req : req[r].resp \in Rejections => worker[r].pc = "none")
    /\ [][\A r \in Req :
            (req[r].pc = "new" /\ req'[r].pc # "new") =>
               LET u == req'[r].url[1]
                   resp == req'[r].resp
               IN /\ u.text = "" => resp = ErrNoUrl
                  /\ (u.text # "" /\ ~is_valid_url(u)) => resp = ErrBadUrl
                  /\ (is_valid_url(u) /\ download_status.in_progress) => resp = ErrBusy
                  /\ (is_valid_url(u) /\ ~download_status.in_progress) => resp = None
                  /\ resp \in Rejections =>
                        /\ req'[r].pc = "done"
                        /\ download_status' = download_status
                        /\ worker' = worker
                        /\ threads_started' = threads_started]_vars

\* C1 witness: a request was turned away as busy while the worker of another
\* request is inside the library call.
C1_Witness ==
    /\ \E r \in Req : req[r].resp = ErrBusy /\ download_status.in_progress
    /\ \E q \in Req : worker[q].pc = "call"

\* C2: at most one download worker thread is active at any time.
C2_AtMostOneActiveWorker == Cardinality(ActiveWorkers) <= 1

\* C3: in_progress is True from the moment a request is accepted until its
\* worker has written its final status.
C3_InProgressUntilWorkerDone ==
    \A r \in Req : (Accepted(r) /\ worker[r].pc # "done") => download_status.in_progress

StatusCompleted ==
    /\ download_status.error = None
    /\ download_status.status = "Download completed!"
    /\ download_status.progress = 100

StatusFailed ==
    /\ download_status.error # None
    /\ download_status.status = "Download failed"

\* C4: whenever a download has been accepted and in_progress is False, what
\* GET /status returns is either completed (no error, 'Download completed!',
\* progress 100) or failed (an error, 'Download failed'), and not both.
C4_FinishedIsCompletedOrFailed ==
    (latest # 0 /\ ~get_download_status.in_progress) =>
        (StatusCompleted /\ ~StatusFailed) \/ (StatusFailed /\ ~StatusCompleted)

\* C5: once a download has been accepted, the error, filename and progress
\* that are visible are the reset values or were written by that download,
\* never by an earlier one.
C5_EarlierDownloadNeverVisible ==
    latest # 0 =>
        /\ owner.error = latest
        /\ owner.filename = latest
        /\ owner.progress = latest



(***************************************************************************)
(* Claims about the worker threads of the variants                         *)
(***************************************************************************)

VideoLoadedAndFormatSelected ==
    /\ win.current_video_info # None
    /\ win.current_formats # <<>>
    /\ win.selected_format # <<>>

\* C6: every user-initiated action starts at most one worker thread:
\* _fetch_video_info starts exactly one when the URL field is non-empty and none
\* otherwise; _start_download starts exactly one when a video is loaded and a
\* format is selected and none otherwise; POST /download starts exactly one
\* when accepted and none when rejected.
C6_OneWorkerPerAction ==
    /\ [][threads_started' \in {threads_started, threads_started + 1}]_vars
    /\ [][\A url \in GuiUrls :
            _fetch_video_info(url) =>
               /\ threads_started' = threads_started + (IF url # "" THEN 1 ELSE 0)
               /\ Len(threads') = Len(threads) + (IF url # "" THEN 1 ELSE 0)]_vars
    /\ [][_start_download =>
               /\ threads_started' =
                     threads_started + (IF VideoLoadedAndFormatSelected THEN 1 ELSE 0)
               /\ Len(threads') = Len(threads) + (IF VideoLoadedAndFormatSelected THEN 1 ELSE 0)]_vars
    /\ [](variant = "gui" => Len(threads) = threads_started)
    /\ [](variant = "flask" =>
            /\ threads_started = Cardinality({r \in Req : req[r].resp = MsgStarted})
            /\ \A r \in Req : (req[r].resp = MsgStarted) <=> (worker[r].pc # "none"))

\* C6 witness: the window has started a fetch worker and a download worker.
C6_Witness ==
    /\ variant = "gui"
    /\ threads_started = 2
    /\ \E t \in DOMAIN threads : threads[t].kind = "fetch"
    /\ \E t \in DOMAIN threads : threads[t].kind = "download"

\* C7: _cancel_download only sets is_downloading to False and resets the
\* buttons and the status text; the download worker in flight is not stopped:
\* its library call runs to completion and its completion callback runs.
C7_CancelDoesNotStopWorker ==
    /\ [][_cancel_download =>
            /\ threads' = threads
            /\ after_queue' = after_queue
            /\ threads_started' = threads_started
            /\ win' = [win EXCEPT !.is_downloading = FALSE,
                                  !.download_button = "normal",
                                  !.cancel_button = "disabled",
                                  !.fetch_button.state = "normal",
                                  !.progress_status = "Download cancelled",
                                  !.status_label = "Ready"]]_vars
    /\ (cancelled # {}) ~> (\A t \in cancelled : threads[t].pc = "done")
    /\ [](\A t \in cancelled : threads[t].pc \in {"started", "execute", "posted", "done"})

\* C7 witness: a download that was in flight when Cancel was pressed has
\* finished and its _download_completed callback has run.
C7_Witness ==
    \E t \in cancelled :
        /\ threads[t].pc = "done"
        /\ threads[t].cb = "_download_completed"
        /\ win.progress_status = "Download completed!"

(***************************************************************************)
(* Claims about the helper functions                                       *)
(***************************************************************************)

\* Heights descend, and of two formats of one height the one with audio is first.
HeightDescendingAudioFirst(fs) ==
    \A i, j \in DOMAIN fs :
        i < j => \/ fs[i].height > fs[j].height
                 \/ fs[i].height = fs[j].height /\ (fs[j].has_audio => fs[i].has_audio)

\* C8: app.py's _extract_formats returns the formats sorted by height in
\* descending order, and among formats of equal height those with audio come
\* before those without.
C8_FlaskFormatsSorted ==
    call.op = "app._extract_formats" =>
        /\ HeightDescendingAudioFirst(call.result)
        /\ Len(call.result) = Cardinality({i \in DOMAIN call.arg : FlaskKeeps(call.arg[i])})
        /\ \A i \in DOMAIN call.result :
              ToFormat(call.arg[call.result[i].format_id]) = call.result[i]

\* C8 witness: three formats came back reordered, two of one height of which
\* the first has audio and the second has none.
C8_Witness ==
    /\ call.op = "app._extract_formats"
    /\ Len(call.result) = 3
    /\ call.result[1].height > call.result[2].height
    /\ call.result[2].height = call.result[3].height
    /\ call.result[2].has_audio /\ ~call.result[3].has_audio
    /\ call.result[3].format_id = 1

\* C9: the clean-architecture and terminal variants return the formats sorted
\* by height in descending order, and among formats of equal height every
\* format with audio comes before every format without.
C9_CleanFormatsSorted ==
    call.op \in {"repository._extract_formats", "sort_formats", "get_available_formats"} =>
        HeightDescendingAudioFirst(call.result)

STR_SLASH == "/"
STR_BESTAUDIO == <<"b", "e", "s", "t", "a", "u", "d", "i", "o">>
HeightAlternative(digits) ==
    STR_BEST \o <<"[", "h", "e", "i", "g", "h", "t", "<", "=">> \o digits \o <<"]">>

\* C10: the selector is 'best[height<=1080]/best[height<=720]/best[height<=480]/best'
\* when format_id is 'best' and '<format_id>+bestaudio/bestaudio/best' otherwise;
\* in both cases its last '/'-separated alternative is 'best'.
C10_FormatSelector ==
    call.op = "format_selector" =>
        LET alternatives == Split(call.result, STR_SLASH) IN
        /\ alternatives[Len(alternatives)] = STR_BEST
        /\ call.arg = STR_BEST =>
              alternatives = << HeightAlternative(<<"1", "0", "8", "0">>),
                                HeightAlternative(<<"7", "2", "0">>),
                                HeightAlternative(<<"4", "8", "0">>),
                                STR_BEST >>
        /\ call.arg # STR_BEST =>
              call.result = call.arg \o <<"+">> \o STR_BESTAUDIO \o <<STR_SLASH>>
                                     \o STR_BESTAUDIO \o <<STR_SLASH>> \o STR_BEST

\* C10 witness: the selector was built for format_id 'best'.
C10_Witness ==
    /\ call.op = "format_selector"
    /\ call.arg = STR_BEST
    /\ Len(Split(call.result, STR_SLASH)) = 4

(***************************************************************************)
(* Claims about the error messages                                         *)
(***************************************************************************)

\* The position in the fixed order of the first substring the text contains,
\* or 0 when it contains none.
FirstMarker(text) ==
    IF \E k \in DOMAIN ErrorMarkers : Contains(text, ErrorMarkers[k])
    THEN CHOOSE k \in DOMAIN ErrorMarkers :
            /\ Contains(text, ErrorMarkers[k])
            /\ \A j \in 1..(k - 1) : ~Contains(text, ErrorMarkers[j])
    ELSE 0

\* The canned messages of download_video and of get_video_info, by position;
\* position 1 is the 403 message for other sites.
CannedDownload ==
    << "Access denied. This video may be private, region-restricted, or require authentication. Please try a different video.",
       "This video is unavailable. It may have been removed or made private.",
       "The requested video format is not available. Please try selecting a different quality option.",
       MsgAgeCheck, MsgNoFormats, MsgUnsupportedUrl >>

CannedInfo ==
    << "Access denied. This video may be private, region-restricted, or require authentication. Please try a different video or check if the video is publicly available.",
       "This video is unavailable. It may have been removed, made private, or is not accessible.",
       "The requested video format is not available. Please try a different video or check the video URL.",
       MsgAgeCheck, MsgNoFormats, MsgUnsupportedUrl >>

\* C11: the exception's message is mapped by the first of the six substrings it
\* contains, in the fixed order, the 403 case split by whether the lowered URL
\* contains 'movies4us' or 'streaming'; an unmatched message becomes
\* 'Download failed: <msg>' in download_video and 'Error extracting video
\* info: <msg>' in get_video_info; download_video always returns, with
\* success False exactly when the library raised.
C11_ErrorsMappedByFirstMatch ==
    call.op \in {"download_video", "get_video_info"} =>
        LET error_msg == call.arg[1]
            url == call.arg[2]
            k == FirstMarker(error_msg)
            canned == IF call.op = "download_video" THEN CannedDownload ELSE CannedInfo
            prefix == IF call.op = "download_video" THEN "Download failed: "
                      ELSE "Error extracting video info: "
            streaming == \E i \in DOMAIN url : url[i] \in {"movies4us", "MOVIES4US", "Streaming"}
        IN /\ call.op = "download_video" => call.result.returned
           /\ call.result.success =>
                 call.result.message = <<"Download completed successfully!">>
           /\ ~call.result.success =>
                 /\ k = 0 => call.result.message = <<prefix>> \o error_msg
                 /\ (k = 1 /\ streaming) => call.result.message = <<MsgStreamingSite>>
                 /\ (k = 1 /\ ~streaming) => call.result.message = <<canned[1]>>
                 /\ k > 1 => call.result.message = <<canned[k]>>

\* C11 witness: a message holding 'Video unavailable' before 'HTTP Error 403'
\* was mapped to the 403 message of a streaming site, for a URL in upper case.
C11_Witness ==
    /\ call.op = "download_video"
    /\ call.arg = << <<"Video unavailable", "HTTP Error 403">>, <<"MOVIES4US">> >>
    /\ call.result.message = <<MsgStreamingSite>>

(***************************************************************************)
(* Claims about the entities                                               *)
(***************************************************************************)

\* int(s) of a text of decimal digits.
DigitValue(c) == CHOOSE v \in 0..9 : DigitChars[v + 1] = c

RECURSIVE ParseInt(_)
ParseInt(s) ==
    IF s = <<>> THEN 0
    ELSE 10 * ParseInt(SubSeq(s, 1, Len(s) - 1)) + DigitValue(s[Len(s)])

IsDigits(s) == s # <<>> /\ \A i \in DOMAIN s : \E v \in 0..9 : DigitChars[v + 1] = s[i]

\* C12: for a duration d > 0, duration_formatted is 'MM:SS' with MM = d div 60
\* and SS = d mod 60 when d < 3600 and 'HH:MM:SS' with HH = d div 3600,
\* MM = (d mod 3600) div 60, SS = d mod 60 when d >= 3600, each field of at
\* least two digits, so the fields recombine to d; 120 gives '02:00'; for None
\* and 0 it is 'Unknown'.
C12_DurationFormatted ==
    call.op = "duration_formatted" =>
        IF call.arg = <<>> \/ call.arg = <<0>> THEN call.result = STR_UNKNOWN
        ELSE LET d == call.arg[1]
                 fields == Split(call.result, ":")
                 n == Len(fields)
             IN /\ \A i \in 1..n : IsDigits(fields[i]) /\ Len(fields[i]) >= 2
                /\ d < 3600 =>
                      /\ n = 2
                      /\ ParseInt(fields[1]) = d \div 60
                      /\ ParseInt(fields[2]) = d % 60
                      /\ Len(fields[1]) = 2 /\ Len(fields[2]) = 2
                      /\ 60 * ParseInt(fields[1]) + ParseInt(fields[2]) = d
                /\ d >= 3600 =>
                      /\ n = 3
                      /\ ParseInt(fields[1]) = d \div 3600
                      /\ ParseInt(fields[2]) = (d % 3600) \div 60
                      /\ ParseInt(fields[3]) = d % 60
                      /\ Len(fields[2]) = 2 /\ Len(fields[3]) = 2
                      /\ 3600 * ParseInt(fields[1]) + 60 * ParseInt(fields[2])
                            + ParseInt(fields[3]) = d
                /\ d = 120 => call.result = <<"0", "2", ":", "0", "0">>

\* C12 witness: 3661 seconds were formatted as '01:01:01'.
C12_Witness ==
    /\ call.op = "duration_formatted"
    /\ call.arg = <<3661>>
    /\ call.result = <<"0", "1", ":", "0", "1", ":", "0", "1">>

(***************************************************************************)
(* Claims about the settings and the container                             *)
(***************************************************************************)

\* What a repository opened now on config.json returns.
NewRepositoryConfig == _load_config(config_file)

\* The config dict of repository o.
ConfigOf(o) == heap[o].config[1]

\* C13: after set_download_path(p) with non-blank p has returned,
\* get_download_path() of that repository returns p, a new repository opened
\* on the same file returns p, and the preferred format of the repository is
\* unchanged; the same for set_preferred_format, with the download path
\* unchanged; a blank value is refused and changes nothing; with no config
\* file a repository returns 'downloads' and None.
C13_SettingsRoundTrip ==
    /\ [][\A o \in RepoIds, p \in ConfigPaths, disk_ok \in BOOLEAN :
            set_download_path(o, p, disk_ok) =>
               /\ IsBlank(p) => (config_error' # None /\ heap' = heap /\ config_file' = config_file)
               /\ (~IsBlank(p) /\ config_error' = None) =>
                     /\ config_get_download_path(heap'[o].config[1]) = p
                     /\ config_get_download_path(_load_config(config_file')) = p
                     /\ get_preferred_format(heap'[o].config[1])
                           = get_preferred_format(ConfigOf(o))]_vars
    /\ [][\A o \in RepoIds, f \in ConfigFormats, disk_ok \in BOOLEAN :
            set_preferred_format(o, f, disk_ok) =>
               /\ IsBlank(f) => (config_error' # None /\ heap' = heap /\ config_file' = config_file)
               /\ (~IsBlank(f) /\ config_error' = None) =>
                     /\ get_preferred_format(heap'[o].config[1]) = f
                     /\ get_preferred_format(_load_config(config_file')) = f
                     /\ config_get_download_path(heap'[o].config[1])
                           = config_get_download_path(ConfigOf(o))]_vars
    /\ [](config_file = <<>> =>
            /\ config_get_download_path(NewRepositoryConfig) = "downloads"
            /\ get_preferred_format(NewRepositoryConfig) = None)

\* C13 witness: the preferred format 'null' and the path 'videos' were set
\* through one repository and a repository opened afterwards returns both.
C13_Witness ==
    /\ variant = "clean"
    /\ config_file # <<>>
    /\ \E o \in Repos :
          /\ ConfigOf(o) = NewRepositoryConfig
          /\ \E q \in Repos : q < o /\ ConfigOf(q) = ConfigOf(o)
    /\ get_preferred_format(NewRepositoryConfig) = "null"
    /\ config_get_download_path(NewRepositoryConfig) = "videos"

(***************************************************************************)
(* Claims about PathService                                                *)
(***************************************************************************)

\* base/name: the two joined by one '/', which a base ending in '/' already has.
Under(base, name) ==
    IF base[Len(base)] = "/" THEN base \o name ELSE base \o <<"/">> \o name

\* How often the text ends in '.%(ext)s', one suffix after the other.
RECURSIVE SuffixCount(_)
SuffixCount(s) ==
    IF endswith(s, STR_EXT_SUFFIX)
    THEN 1 + SuffixCount(SubSeq(s, 1, Len(s) - Len(STR_EXT_SUFFIX)))
    ELSE 0

C15_ContainerWiring ==
    /\ [](call.op = "DIContainer.get_use_cases" =>
            /\ DOMAIN call.result
                  = {"get_video_info", "get_formats", "download_video", "validate_url"}
            /\ heap[call.result.get_video_info].cls = "GetVideoInfoUseCase"
            /\ heap[call.result.get_formats].cls = "GetAvailableFormatsUseCase"
            /\ heap[call.result.download_video].cls = "DownloadVideoUseCase"
            /\ heap[call.result.validate_url].cls = "ValidateUrlUseCase")
    /\ [](call.op = "DIContainer.get_services" =>
            /\ DOMAIN call.result = {"format_selection", "path"}
            /\ heap[call.result.format_selection].cls = "FormatSelectionService"
            /\ heap[call.result.path].cls = "PathService")
    /\ [](call.op = "DIContainer.get" =>
            LET name == call.arg[1]
                known == name \in {"video_repository", "config_repository",
                                   "format_selection_service", "path_service",
                                   "get_video_info_use_case", "get_formats_use_case",
                                   "download_video_use_case", "validate_url_use_case"}
            IN /\ ~known => call.result.raised = "ValueError"
               /\ known => /\ call.result.raised = None
                           /\ call.result.value = <<Instance(name)>>)
    /\ [][container # <<>> => container' = container]_vars
    /\ [](container # <<>> =>
            /\ \A i, j \in DOMAIN RegisteredNames : i # j => container[1][i] # container[1][j]
            /\ heap[Instance("config_repository")].cls = "JsonConfigurationRepository"
            /\ heap[Instance("format_selection_service")].config_repository
                  = <<Instance("config_repository")>>
            /\ heap[Instance("path_service")].config_repository
                  = <<Instance("config_repository")>>
            /\ heap[Instance("download_video_use_case")].config_repository
                  = <<Instance("config_repository")>>)

\* C15 witness: the container was asked for the key of a use case, which is no
\* registered name, and raised ValueError.
C15_Witness ==
    /\ container # <<>>
    /\ Instance("config_repository") = 2
    /\ call.op = "DIContainer.get"
    /\ call.arg = <<"get_video_info">>
    /\ call.result.raised = "ValueError"

\* C16: display_name of a format that is neither automatic nor compatible
\* starts with its resolution; with is_auto it is the 'Best Quality with Audio
\* (Recommended)' label whatever is_compatible is; audio_info is the 'With
\* Audio' label exactly when has_audio is True.
C16_DisplayName ==
    /\ call.op = "display_name" =>
          LET fmt == call.arg[1] IN
          /\ (~fmt.is_auto /\ ~fmt.is_compatible) =>
                /\ call.result[1] = fmt.resolution
                /\ call.result[Len(call.result)] \in {"With Audio", "No Audio"}
                /\ (call.result[Len(call.result)] = "With Audio") <=> fmt.has_audio
          /\ fmt.is_auto => call.result = <<"Best Quality with Audio (Recommended)">>
          /\ (~fmt.is_auto /\ fmt.is_compatible) =>
                call.result = <<"Best Compatible Format (Works everywhere)">>
    /\ call.op = "audio_info" =>
          ((call.result = <<"With Audio">>) <=> call.arg[1].has_audio)

\* C16 witness: the name of a format that is both automatic and compatible is
\* the label of the automatic one.
C16_Witness ==
    /\ call.op = "display_name"
    /\ call.arg[1].is_auto /\ call.arg[1].is_compatible
    /\ call.result = <<"Best Quality with Audio (Recommended)">>

\* C17: get_recommended_formats(formats) returns len(formats) + 2 elements:
\* first the automatic 'best with audio' option, second the 'best compatible'
\* option, then the formats given, in their order; the list given is not
\* changed; the terminal variant numbers its choices the same way.
C17_RecommendedFormats ==
    /\ call.op = "get_recommended_formats" =>
          LET r == call.result.recommended IN
          /\ Len(r) = Len(call.arg) + 2
          /\ r[1].is_auto /\ ~r[1].is_compatible
          /\ r[1].format_id = "bestvideo[ext=mp4]+bestaudio[ext=m4a]/best[ext=mp4]/best"
          /\ r[2].is_compatible /\ ~r[2].is_auto
          /\ r[2].format_id = "best[height<=720][ext=mp4]/best[height<=720]/best[ext=mp4]/best"
          /\ \A i \in DOMAIN call.arg : r[i + 2] = call.arg[i]
          /\ call.result.formats = call.arg
    /\ call.op = "get_user_selection" =>
          LET formats == call.arg[1]
              n == call.arg[2]
              r == get_recommended_formats(formats)
          IN IF n + 1 \in DOMAIN r
             THEN /\ call.result # <<>>
                  /\ call.result[1].format_id = r[n + 1].format_id
                  /\ call.result[1].is_auto = r[n + 1].is_auto
                  /\ call.result[1].is_compatible = r[n + 1].is_compatible
                  /\ n >= 2 => call.result[1] = formats[n - 1]
             ELSE call.result = <<>>

\* C17 witness: two formats, the lower one first, came back as elements 3 and 4
\* in that order.
C17_Witness ==
    /\ call.op = "get_recommended_formats"
    /\ Len(call.arg) = 2
    /\ call.arg[1].height < call.arg[2].height
    /\ call.result.recommended[3] = call.arg[1]
    /\ call.result.recommended[4] = call.arg[2]

(***************************************************************************)
(* Claims about the desktop window                                         *)
(***************************************************************************)

\* C18: when the callback of a download worker has run, whether the download
\* succeeded, the use case raised or the path setup raised, the window is idle:
\* is_downloading is False, the download button is enabled and the cancel
\* button is disabled.
C18_WindowIdleAfterDownload ==
    [][\A t \in DOMAIN threads :
          (threads[t].kind = "download" /\ threads[t].pc # "done" /\ threads'[t].pc = "done") =>
              /\ ~win'.is_downloading
              /\ win'.download_button = "normal"
              /\ win'.cancel_button = "disabled"]_vars

\* The elements of a list.
Elements(list) == {list[i] : i \in DOMAIN list}

\* C19: every download request built by _start_download carries a
\* selected_format that is an element of current_formats, the list fetched for
\* current_video_info.
C19_SelectedFormatIsCurrent ==
    [][(_start_download /\ VideoLoadedAndFormatSelected) =>
          /\ win.selected_format[1] \in Elements(win.current_formats)
          /\ win.current_formats = get_recommended_formats(FormatsOf(win.current_video_info))]_vars

\* A fetch-info worker has been started and has not yet handed its result over.
FetchInFlight ==
    \E t \in DOMAIN threads : threads[t].kind = "fetch" /\ threads[t].pc \in {"started", "extract"}

FetchThreads(ths) == {t \in DOMAIN ths : ths[t].kind = "fetch"}

\* C20: while a fetch-info worker is in flight, or while a download is in
\* progress, no user input starts a further fetch-info worker.
C20_NoSecondFetch ==
    [][(FetchInFlight \/ win.is_downloading) => FetchThreads(threads') = FetchThreads(threads)]_vars

\* The callbacks that ran in this step: the threads that pass to "done".
RanCallback(t) ==
    t \in DOMAIN threads /\ threads[t].pc # "done" /\ threads'[t].pc = "done"

\* The fetch button as the window was constructed with it.
FetchButtonReset == [state |-> "normal", text |-> "Get Video Info"]

Init == InitFlask \/ InitGui \/ InitLib \/ InitClean \/ InitContainer

Next == NextFlask \/ NextGui \/ NextLib \/ NextClean \/ NextContainer

Spec == Init /\ [][Next]_vars

\* A step of some worker thread of the window.
WorkerThreadStep ==
    \E t \in GuiThreadIds, b \in BOOLEAN :
        \/ fetch_thread_validates(t, b)
        \/ fetch_thread_extracts(t, b)
        \/ download_thread_prepares(t, b)
        \/ download_thread_executes(t, b)

\* The desktop window alone.  The operating system keeps running the worker
\* threads, the library calls return, and the Tk main loop runs what is pending.
FairSpecGui ==
    /\ InitGui
    /\ [][NextGui]_vars
    /\ WF_vars(mainloop_runs_callback)
    /\ WF_vars(WorkerThreadStep)

====
